---- MODULE Spec2Model ----
(***************************************************************************)
(* A model of yeya24/backfiller (src/main.go, the flag-driven variant of   *)
(* lines 1-272): parseRules, getTimeRange, backfillRules and main.         *)
(*                                                                         *)
(* Time.  A time.Time is modelled as an integer count of ticks, with       *)
(* TicksPerMs ticks to the millisecond, so that timestamp.FromTime (which  *)
(* truncates to milliseconds) is not the identity.  An int64 millisecond   *)
(* timestamp is an integer.  MaxInt64/MinInt64 stand for math.MaxInt64 and *)
(* math.MinInt64: TLC's integers are 32 bits wide, so the model uses a     *)
(* value far above (below) every timestamp it draws.                       *)
(***************************************************************************)
EXTENDS Integers, Sequences, FiniteSets, TLC

\* ------------------------------------------------------------------ bounds
TicksPerMs == 2
\* Largest millisecond timestamp held by the storage of SpecRange.
MaxT == 3
\* Largest millisecond timestamp of a resolved range of SpecWalk / Spec.
MaxEnd == 1
\* Largest evaluation interval (ms) drawn.
MaxInterval == 2
\* Largest number of recording rules handed to backfillRules.
MaxRules == 2
\* Largest number of results one query returns.
MaxVec == 2
\* Largest number of samples a whole run produces.
MaxTotal == 4
\* Largest --max-samples-in-mem drawn.
MaxThreshold == 2

\* --------------------------------------------------------------- constants
MaxInt64 == 100000
MinInt64 == -MaxInt64 - 1

VARIABLES
    \* inputs (command line, rule file, storage), fixed by Init
    ruleFile,      \* [ok, defs]: result of rulefmt.ParseFile and the rule definitions
    dbOk,          \* whether tsdb.Open succeeds
    head,          \* [min, max]: db.Head().MinTime(), db.Head().MaxTime()
    dbBlocks,      \* set of [min, max]: db.Blocks()
    startFlag,     \* --start
    endFlag,       \* --end
    evalInterval,  \* --eval-interval, in ms
    maxSamples,    \* --max-samples-in-mem
    \* program state
    pc,            \* position of main / backfillRules
    rules,         \* result of parseRules
    tr,            \* result of getTimeRange: [err, start, end]
    ri,            \* index of the rule being walked (1-based)
    t,             \* loop variable t of backfillRules
    vec,           \* results of the current query not yet appended
    mss,           \* the batch
    minTime,       \* running minimum
    maxTime,       \* running maximum
    \* observations
    queries,       \* every queryFunc call: [rule, t]
    queryErr,      \* whether the last queryFunc call returned an error
    created,       \* every tsdb.CreateBlock call: [samples, mint, maxt, ok]
    produced,      \* every sample appended to the batch, in order
    consumed,      \* every raw result taken from a vector, in order
    answered,      \* the rules (by index) a query returned a non-empty vector for
    stamped,       \* every result returned so far carries the instant it was asked for
    exitCode,      \* process exit status, -1 while running
    cfgErr,        \* a configuration error was reported
    flushErr,      \* a CreateBlock error was reported
    dbState        \* the storage handle: "unopened", "open" or "closed"

inputs == <<ruleFile, dbOk, head, dbBlocks, startFlag, endFlag, evalInterval, maxSamples>>
walk == <<ri, t, vec, mss, minTime, maxTime>>
obs == <<queries, queryErr, created, produced, consumed, answered, stamped>>
vars == <<inputs, pc, rules, tr, walk, obs, exitCode, cfgErr, flushErr, dbState>>

\* ----------------------------------------------------------------- helpers
max(a, b) == IF a > b THEN a ELSE b

min(a, b) == IF a > b THEN b ELSE a

\* timestamp.FromTime: milliseconds since the epoch, sub-millisecond part dropped.
FromTime(tm) == tm \div TicksPerMs

\* timestamp.Time: the time.Time of a millisecond timestamp.
Time(ms) == ms * TicksPerMs

\* A flag value: the empty string, a string parseTime rejects, or a string
\* denoting the instant tk (in ticks).
NoFlag == [kind |-> "empty", tk |-> 0]
BadFlag == [kind |-> "bad", tk |-> 0]
TimeFlag(tk) == [kind |-> "time", tk |-> tk]

\* parseTime: a float of Unix seconds or an RFC3339 string gives its instant,
\* anything else an error.
parseTime(s) ==
    IF s.kind = "time" THEN [err |-> FALSE, tm |-> s.tk]
    ELSE [err |-> TRUE, tm |-> 0]

\* The loop of getTimeRange over db.Blocks(): minTime = min(minTime, block.MinTime()).
RECURSIVE BlocksMin(_, _)
BlocksMin(m, bs) ==
    IF bs = {} THEN m
    ELSE LET b == CHOOSE x \in bs : TRUE
         IN BlocksMin(min(m, b.min), bs \ {b})

storageMin(h, bs) == BlocksMin(h.min, bs)

storageMax(h, bs) == h.max

clampStartNever(stime, mn) == stime

\* Lines 166-168: a start before minTime becomes minTime.
clampStart(stime, mn) == IF FromTime(stime) < mn THEN Time(mn) ELSE stime

\* Lines 178-180: an end after maxTime becomes maxTime.
clampEnd(etime, mx) == IF FromTime(etime) > mx THEN Time(mx) ELSE etime

AfterSwapped(stime, etime) == etime > stime

\* stime.After(etime)
After(stime, etime) == stime > etime

TrErr(e) == [err |-> e, start |-> 0, end |-> 0]

getTimeRange(h, bs, start, end) ==
    LET mn == storageMin(h, bs)
        mx == storageMax(h, bs)
        ps == parseTime(start)
        pe == parseTime(end)
        stime == IF start # NoFlag THEN clampStart(ps.tm, mn) ELSE Time(mn)
        etime == IF end # NoFlag THEN clampEnd(pe.tm, mx) ELSE Time(mx)
    IN  IF start # NoFlag /\ ps.err THEN TrErr("parse start")
        ELSE IF end # NoFlag /\ pe.err THEN TrErr("parse end")
        ELSE IF After(stime, etime) THEN TrErr("start after end")
        ELSE [err |-> "none", start |-> stime, end |-> etime]

\* ------------------------------------------------------------------ labels
\* A label set is a function from label names to values.  LabelNames lists
\* the names the model draws, in the order labels.Labels sorts them.
MetricName == "__name__"
LabelNames == <<MetricName, "instance", "key">>

\* labels.FromMap: the pairs of the map, sorted by name.
FromMap(m) ==
    LET names == SelectSeq(LabelNames, LAMBDA n : n \in DOMAIN m)
    IN  [i \in 1 .. Len(names) |-> [Name |-> names[i], Value |-> m[names[i]]]]

\* labels.Builder.Set on the builder's label set.
lbSet(ls, n, v) == [k \in DOMAIN ls \cup {n} |-> IF k = n THEN v ELSE ls[k]]

\* Lines 222-224: lb.Set(l.Name, l.Value) for every label of the rule.
RECURSIVE setAll(_, _)
setAll(ls, lset) ==
    IF lset = <<>> THEN ls
    ELSE setAll(lbSet(ls, Head(lset).Name, Head(lset).Value), Tail(lset))

\* ------------------------------------------------------------- parseRules
\* A rule definition of the file: its record name ("" for an alerting rule)
\* and whether parser.ParseExpr accepts its expression.
\* The labels the rule definition named record declares.
RuleLabels(record) ==
    IF record = "r2" THEN [n \in {"key"} |-> "value"] ELSE <<>>

\* The interval the group of the rule definition named record declares
\* (rg.Interval, in ms), 0 when it declares none.
GroupInterval(record) == IF record = "r2" THEN MaxInterval ELSE 0

RuleDef(record, exprOk) ==
    [record |-> record, exprOk |-> exprOk, labels |-> RuleLabels(record),
     interval |-> GroupInterval(record)]

\* Line 137: the recording rule of a definition.
recordingRule(rule) == [name |-> rule.record, lset |-> FromMap(rule.labels)]

\* A loop that drops a recording rule whose expression does not parse.
RECURSIVE parseLoopSkipsBad(_, _)
parseLoopSkipsBad(defs, acc) ==
    IF defs = <<>> THEN [err |-> FALSE, rules |-> acc]
    ELSE LET rule == Head(defs)
         IN IF rule.record # "" /\ rule.exprOk
            THEN parseLoopSkipsBad(Tail(defs), Append(acc, recordingRule(rule)))
            ELSE parseLoopSkipsBad(Tail(defs), acc)

\* The loop of parseRules over the definitions, in file order.
RECURSIVE parseLoop(_, _)
parseLoop(defs, acc) ==
    IF defs = <<>> THEN [err |-> FALSE, rules |-> acc]
    ELSE LET rule == Head(defs)
         IN IF rule.record # ""
            THEN IF ~rule.exprOk
                 THEN [err |-> TRUE, rules |-> <<>>]
                 ELSE parseLoop(Tail(defs), Append(acc, recordingRule(rule)))
            ELSE parseLoop(Tail(defs), acc)

parseRules(file) ==
    IF ~file.ok THEN [err |-> TRUE, rules |-> <<>>]
    ELSE parseLoop(file.defs, <<>>)

\* ---------------------------------------------------------- backfillRules
start == FromTime(tr.start)
end == FromTime(tr.end)

\* The increment of the instant loop (line 212).
nextInstant(x) == x + evalInterval

\* A loop condition that lets the walk take one step past the end.
inRangeOvershoot(x) == x <= end + evalInterval

\* The instant loop's condition (line 212).
inRange(x) == x <= end

\* The first instant of a rule (line 212).
firstInstant == start

\* The loop heads of lines 211-212 from rule r at instant x: the first
\* position whose instant passes the loop condition, or past the last rule.
RECURSIVE settle(_, _)
settle(r, x) ==
    IF r > Len(rules) \/ inRange(x) THEN [ri |-> r, t |-> x]
    ELSE settle(r + 1, firstInstant)

nextPos == settle(ri, nextInstant(t))

\* Lines 219-225: the sample built from a raw result of the rule.
relabelKeepsName(rule, raw) ==
    [Labels |-> setAll(raw.Metric, rule.lset), Value |-> raw.V, T |-> raw.T]

relabelNoRuleLabels(rule, raw) ==
    [Labels |-> lbSet(raw.Metric, MetricName, rule.name), Value |-> raw.V, T |-> raw.T]

relabel(rule, raw) ==
    [Labels |-> setAll(lbSet(raw.Metric, MetricName, rule.name), rule.lset),
     Value |-> raw.V,
     T |-> raw.T]

flushDueLate(n) == n > maxSamples

\* Line 231.
flushDue(n) == n = maxSamples

finalFlushAlways(n) == n >= 0

\* Line 248.
finalFlushDue(n) == n > 0

\* A tsdb.CreateBlock call (lines 232, 249).
createBlock(samples, mint, maxt, ok) ==
    [samples |-> samples, mint |-> mint, maxt |-> maxt, ok |-> ok]

\* The process ends: main returns.
mainReturns == 0

\* Line 87: defer db.Close() runs when main returns.
deferredClose == IF dbState = "open" THEN "closed" ELSE dbState

\* ----------------------------------------------------------------- actions
\* main, lines 69-75.
ParseRulesOk ==
    /\ UNCHANGED dbState
    /\ pc = "parseRules"
    /\ ~parseRules(ruleFile).err
    /\ rules' = parseRules(ruleFile).rules
    /\ pc' = "open"
    /\ UNCHANGED <<inputs, tr, walk, obs, exitCode, cfgErr, flushErr>>

ParseRulesErr ==
    /\ UNCHANGED dbState
    /\ pc = "parseRules"
    /\ parseRules(ruleFile).err
    /\ rules' = parseRules(ruleFile).rules
    /\ cfgErr' = TRUE
    /\ pc' = "exit"
    /\ exitCode' = mainReturns
    /\ UNCHANGED <<inputs, tr, walk, obs, flushErr>>

\* main, lines 82-87.
OpenDBOk ==
    /\ dbState' = "open"
    /\ pc = "open"
    /\ dbOk
    /\ pc' = "getTimeRange"
    /\ UNCHANGED <<inputs, rules, tr, walk, obs, exitCode, cfgErr, flushErr>>

OpenDBErr ==
    /\ UNCHANGED dbState
    /\ pc = "open"
    /\ ~dbOk
    /\ pc' = "exit"
    /\ exitCode' = mainReturns
    /\ UNCHANGED <<inputs, rules, tr, walk, obs, cfgErr, flushErr>>

\* main, lines 89-93.
GetTimeRangeOk ==
    /\ UNCHANGED dbState
    /\ pc = "getTimeRange"
    /\ tr' = getTimeRange(head, dbBlocks, startFlag, endFlag)
    /\ tr'.err = "none"
    /\ pc' = "backfill"
    /\ UNCHANGED <<inputs, rules, walk, obs, exitCode, cfgErr, flushErr>>

GetTimeRangeErr ==
    /\ dbState' = deferredClose
    /\ pc = "getTimeRange"
    /\ tr' = getTimeRange(head, dbBlocks, startFlag, endFlag)
    /\ tr'.err # "none"
    /\ cfgErr' = TRUE
    /\ pc' = "exit"
    /\ exitCode' = mainReturns
    /\ UNCHANGED <<inputs, rules, walk, obs, flushErr>>

\* backfillRules, lines 204-211: the locals, and the first rule's first instant.
EnterBackfill ==
    /\ UNCHANGED dbState
    /\ pc = "backfill"
    /\ ri' = settle(1, firstInstant).ri
    /\ t' = settle(1, firstInstant).t
    /\ vec' = <<>>
    /\ mss' = <<>>
    /\ minTime' = MaxInt64
    /\ maxTime' = MinInt64
    /\ pc' = "walk"
    /\ UNCHANGED <<inputs, rules, tr, obs, exitCode, cfgErr, flushErr>>

\* The vectors a query may return: at most MaxVec raw results, each with a
\* timestamp, and no more than the run's remaining sample budget.
SampleTimes == 0 .. MaxEnd
UpMetric == [n \in {MetricName, "instance"} |-> IF n = MetricName THEN "up" ELSE "h"]
Vectors ==
    UNION {[1 .. n -> [Metric : {UpMetric}, V : {1}, T : SampleTimes]] :
              n \in 0 .. min(MaxVec, MaxTotal - Len(produced))}

\* The log of queryFunc calls keeps the first MaxQueries calls: more than
\* any walk with a positive interval makes, so only a walk that does not
\* advance fills it.
MaxQueries == MaxRules * (MaxEnd + 1) + 2
logQuery(q) == IF Len(queries) < MaxQueries THEN Append(queries, q) ELSE queries

\* A query error that ends the run.
QueryErrAborts ==
    /\ dbState' = deferredClose
    /\ pc = "walk"
    /\ ri <= Len(rules)
    /\ queries' = logQuery([rule |-> ri, t |-> t])
    /\ queryErr' = TRUE
    /\ pc' = "exit"
    /\ exitCode' = mainReturns
    /\ UNCHANGED <<inputs, rules, tr, walk, created, produced, consumed, answered, stamped, cfgErr, flushErr>>

\* Lines 213-217: the query fails; the instant is skipped.
QueryErr ==
    /\ UNCHANGED dbState
    /\ pc = "walk"
    /\ ri <= Len(rules)
    /\ queries' = logQuery([rule |-> ri, t |-> t])
    /\ queryErr' = TRUE
    /\ ri' = nextPos.ri
    /\ t' = nextPos.t
    /\ UNCHANGED <<inputs, pc, rules, tr, vec, mss, minTime, maxTime, created,
                   produced, consumed, answered, stamped, exitCode, cfgErr, flushErr>>

\* Lines 213-218: the query returns a vector.
QueryOk ==
    /\ UNCHANGED dbState
    /\ pc = "walk"
    /\ ri <= Len(rules)
    /\ \E v \in Vectors :
          /\ queries' = logQuery([rule |-> ri, t |-> t])
          /\ queryErr' = FALSE
          /\ vec' = v
          /\ IF v = <<>>
             THEN /\ ri' = nextPos.ri
                  /\ t' = nextPos.t
                  /\ pc' = "walk"
             ELSE /\ UNCHANGED <<ri, t>>
                  /\ pc' = "samples"
    /\ answered' = IF vec' = <<>> THEN answered ELSE answered \cup {ri}
    /\ stamped' = (stamped /\ \A i \in 1 .. Len(vec') : vec'[i].T = t)
    /\ UNCHANGED <<inputs, rules, tr, mss, minTime, maxTime, created, produced, consumed,
                   exitCode, cfgErr, flushErr>>

\* The batch and bounds after the head of vec is appended (lines 219-229).
appended == Append(mss, relabel(rules[ri], Head(vec)))
minAfterLatest == Head(vec).T

minAfter == min(minTime, Head(vec).T)
maxAfter == max(maxTime, Head(vec).T)

\* The end of one iteration of the sample loop: the next sample, or the
\* next instant when the vector is exhausted.
SampleDone ==
    /\ vec' = Tail(vec)
    /\ IF Tail(vec) = <<>>
       THEN /\ ri' = nextPos.ri
            /\ t' = nextPos.t
            /\ pc' = "walk"
       ELSE UNCHANGED <<ri, t, pc>>

\* Lines 218-231: a sample is appended and the batch is not full.
AppendSample ==
    /\ UNCHANGED dbState
    /\ pc = "samples"
    /\ ~flushDue(Len(appended))
    /\ mss' = appended
    /\ minTime' = minAfter
    /\ maxTime' = maxAfter
    /\ produced' = Append(produced, relabel(rules[ri], Head(vec)))
    /\ consumed' = Append(consumed, Head(vec))
    /\ SampleDone
    /\ UNCHANGED <<inputs, rules, tr, queries, queryErr, answered, stamped, created, exitCode, cfgErr, flushErr>>

\* Lines 218-242: a sample is appended, the batch is full and the block is created.
AppendFlushOk ==
    /\ UNCHANGED dbState
    /\ pc = "samples"
    /\ flushDue(Len(appended))
    /\ created' = Append(created, createBlock(appended, minAfter, maxAfter, TRUE))
    /\ mss' = <<>>
    /\ minTime' = MaxInt64
    /\ maxTime' = MinInt64
    /\ produced' = Append(produced, relabel(rules[ri], Head(vec)))
    /\ consumed' = Append(consumed, Head(vec))
    /\ SampleDone
    /\ UNCHANGED <<inputs, rules, tr, queries, queryErr, answered, stamped, exitCode, cfgErr, flushErr>>

\* A failed CreateBlock that is reported and the walk goes on.
AppendFlushErrContinues ==
    /\ UNCHANGED dbState
    /\ pc = "samples"
    /\ flushDue(Len(appended))
    /\ created' = Append(created, createBlock(appended, minAfter, maxAfter, FALSE))
    /\ mss' = appended
    /\ minTime' = minAfter
    /\ maxTime' = maxAfter
    /\ produced' = Append(produced, relabel(rules[ri], Head(vec)))
    /\ consumed' = Append(consumed, Head(vec))
    /\ flushErr' = TRUE
    /\ SampleDone
    /\ UNCHANGED <<inputs, rules, tr, queries, queryErr, answered, stamped, exitCode, cfgErr>>

\* Lines 218-236: a sample is appended, the batch is full and CreateBlock
\* fails: backfillRules returns, and main after it.
AppendFlushErr ==
    /\ dbState' = deferredClose
    /\ pc = "samples"
    /\ flushDue(Len(appended))
    /\ created' = Append(created, createBlock(appended, minAfter, maxAfter, FALSE))
    /\ mss' = appended
    /\ minTime' = minAfter
    /\ maxTime' = maxAfter
    /\ produced' = Append(produced, relabel(rules[ri], Head(vec)))
    /\ consumed' = Append(consumed, Head(vec))
    /\ flushErr' = TRUE
    /\ pc' = "exit"
    /\ exitCode' = mainReturns
    /\ UNCHANGED <<inputs, rules, tr, ri, t, vec, queries, queryErr, answered, stamped, cfgErr>>

\* Lines 247-257: nothing remains; backfillRules returns, and main after it.
FinalNone ==
    /\ dbState' = deferredClose
    /\ pc = "walk"
    /\ ri > Len(rules)
    /\ ~finalFlushDue(Len(mss))
    /\ pc' = "exit"
    /\ exitCode' = mainReturns
    /\ UNCHANGED <<inputs, rules, tr, walk, obs, cfgErr, flushErr>>

\* Lines 247-257: the remaining samples are flushed.
FinalFlushOk ==
    /\ dbState' = deferredClose
    /\ pc = "walk"
    /\ ri > Len(rules)
    /\ finalFlushDue(Len(mss))
    /\ created' = Append(created, createBlock(mss, minTime, maxTime, TRUE))
    /\ pc' = "exit"
    /\ exitCode' = mainReturns
    /\ UNCHANGED <<inputs, rules, tr, walk, queries, queryErr, produced, consumed, answered, stamped, cfgErr, flushErr>>

\* Lines 247-253: the final CreateBlock fails.
FinalFlushErr ==
    /\ dbState' = deferredClose
    /\ pc = "walk"
    /\ ri > Len(rules)
    /\ finalFlushDue(Len(mss))
    /\ created' = Append(created, createBlock(mss, minTime, maxTime, FALSE))
    /\ flushErr' = TRUE
    /\ pc' = "exit"
    /\ exitCode' = mainReturns
    /\ UNCHANGED <<inputs, rules, tr, walk, queries, queryErr, produced, consumed, answered, stamped, cfgErr>>

Backfill ==
    \/ EnterBackfill
    \/ QueryErr
    \/ QueryOk
    \/ AppendSample
    \/ AppendFlushOk
    \/ AppendFlushErr
    \/ FinalNone
    \/ FinalFlushOk
    \/ FinalFlushErr

\* ------------------------------------------------------------------ inputs
RuleNames == <<"r1", "r2", "r3", "r4">>
RuleLists ==
    {[i \in 1 .. n |-> recordingRule(RuleDef(RuleNames[i], TRUE))] : n \in 0 .. MaxRules}
Intervals == 1 .. MaxInterval
Thresholds == 0 .. MaxThreshold

\* The locals of backfillRules before it is entered, and the observations
\* before anything ran.
BlankRun ==
    /\ ri = 0
    /\ t = 0
    /\ vec = <<>>
    /\ mss = <<>>
    /\ minTime = 0
    /\ maxTime = 0
    /\ queries = <<>>
    /\ queryErr = FALSE
    /\ created = <<>>
    /\ produced = <<>>
    /\ consumed = <<>>
    /\ answered = {}
    /\ stamped = TRUE
    /\ exitCode = -1
    /\ cfgErr = FALSE
    /\ flushErr = FALSE

\* The state before anything ran.
Blank ==
    /\ rules = <<>>
    /\ tr = TrErr("unset")
    /\ BlankRun

\* A head: empty (tsdb's initial bounds) or holding samples in [min, max].
Heads(top) ==
    {[min |-> MaxInt64, max |-> MinInt64]}
        \cup {h \in [min : 0 .. top, max : 0 .. top] : h.min <= h.max}

\* Persisted blocks: none, or one block [a, b].
BlockSets(top) ==
    {{}} \cup {{b} : b \in {x \in [min : 0 .. top, max : 0 .. top] : x.min <= x.max}}

\* --start / --end values: absent, malformed, or any instant up to one
\* millisecond past top, at tick resolution.
Flags(top) ==
    {NoFlag, BadFlag} \cup {TimeFlag(k) : k \in 0 .. Time(top + 1) + TicksPerMs - 1}

\* Rule files: rulefmt.ParseFile fails, or gives these definitions.
RuleFiles ==
    {[ok |-> FALSE, defs |-> <<>>]}
        \cup {[ok |-> TRUE, defs |-> d] : d \in
                {<<>>,
                 <<RuleDef("r1", TRUE)>>,
                 <<RuleDef("", FALSE), RuleDef("r1", TRUE)>>,
                 <<RuleDef("r1", TRUE), RuleDef("r2", FALSE)>>,
                 <<RuleDef("r1", TRUE), RuleDef("", TRUE), RuleDef("r2", TRUE)>>}}

\* ---------------------------------------------------------- specifications
\* The whole program, from the start of main.
Init ==
    /\ ruleFile \in RuleFiles
    /\ dbOk \in BOOLEAN
    /\ head \in {[min |-> MaxInt64, max |-> MinInt64], [min |-> 1, max |-> MaxEnd]}
    /\ dbBlocks \in {{}, {[min |-> 0, max |-> 1]}}
    /\ startFlag \in {NoFlag, BadFlag, TimeFlag(Time(MaxEnd) + 1)}
    /\ endFlag \in {NoFlag, BadFlag, TimeFlag(Time(1))}
    /\ evalInterval = 1
    /\ maxSamples \in {1, MaxThreshold}
    /\ pc = "parseRules"
    /\ dbState = "unopened"
    /\ Blank

Main ==
    \/ ParseRulesOk
    \/ ParseRulesErr
    \/ OpenDBOk
    \/ OpenDBErr
    \/ GetTimeRangeOk
    \/ GetTimeRangeErr

Next ==
    \/ Main
    \/ Backfill

Spec == Init /\ [][Next]_vars

\* getTimeRange alone, over every storage and override of the bounds.
InitRange ==
    /\ ruleFile = [ok |-> TRUE, defs |-> <<>>]
    /\ dbOk = TRUE
    /\ head \in Heads(MaxT)
    /\ dbBlocks \in BlockSets(MaxT)
    /\ startFlag \in Flags(MaxT)
    /\ endFlag \in Flags(MaxT)
    /\ evalInterval = 1
    /\ maxSamples = 1
    /\ pc = "getTimeRange"
    /\ dbState = "open"
    /\ Blank

NextRange ==
    \/ GetTimeRangeOk
    \/ GetTimeRangeErr

SpecRange == InitRange /\ [][NextRange]_vars

\* backfillRules alone, called with every rule list, range, interval and
\* threshold of the bounds.
InitWalk ==
    /\ ruleFile = [ok |-> TRUE, defs |-> <<>>]
    /\ dbOk = TRUE
    /\ head = [min |-> 0, max |-> MaxEnd]
    /\ dbBlocks = {}
    /\ startFlag = NoFlag
    /\ endFlag = NoFlag
    /\ evalInterval \in Intervals
    /\ maxSamples \in Thresholds
    /\ pc = "backfill"
    /\ dbState = "open"
    /\ BlankRun
    /\ rules \in RuleLists
    /\ \E s \in 0 .. MaxEnd, e \in 0 .. MaxEnd :
          /\ s <= e
          /\ tr = [err |-> "none", start |-> Time(s), end |-> Time(e)]

SpecWalk == InitWalk /\ [][Backfill]_vars

\* backfillRules with every interval --eval-interval can give, zero included
\* (a duration below one millisecond is 0 ms).  The program is one thread
\* that always takes its next step: weak fairness of its steps.
InitLoop ==
    /\ ruleFile = [ok |-> TRUE, defs |-> <<>>]
    /\ dbOk = TRUE
    /\ head = [min |-> 0, max |-> MaxEnd]
    /\ dbBlocks = {}
    /\ startFlag = NoFlag
    /\ endFlag = NoFlag
    /\ evalInterval \in 0 .. MaxInterval
    /\ maxSamples \in Thresholds
    /\ pc = "backfill"
    /\ dbState = "open"
    /\ BlankRun
    /\ rules \in RuleLists
    /\ \E s \in 0 .. MaxEnd, e \in 0 .. MaxEnd :
          /\ s <= e
          /\ tr = [err |-> "none", start |-> Time(s), end |-> Time(e)]

SpecLoop == InitLoop /\ [][Backfill]_vars

FairLoop == SpecLoop /\ WF_vars(Backfill)

\* ------------------------------------------- the reverse-iteration variant
\* main and backfillRule of lines 304-418: every rule is walked from
\* maxTime = now - 1s down to minTime + interval with its group's interval,
\* all samples go into one block, and main ends with os.Exit.

\* Lines 342-344: NewRecordingRule.
NewRecordingRule(rule) ==
    [name |-> rule.record, interval |-> rule.interval, lset |-> FromMap(rule.labels)]

\* Lines 353-366: the loop of backfillRule over the definitions.
RECURSIVE oldParseLoop(_, _)
oldParseLoop(defs, acc) ==
    IF defs = <<>> THEN [err |-> FALSE, rules |-> acc]
    ELSE LET rule == Head(defs)
         IN IF rule.record # ""
            THEN IF ~rule.exprOk
                 THEN [err |-> TRUE, rules |-> <<>>]
                 ELSE oldParseLoop(Tail(defs), Append(acc, NewRecordingRule(rule)))
            ELSE oldParseLoop(Tail(defs), acc)

\* Lines 347-366.
oldParse(file) ==
    IF ~file.ok THEN [err |-> TRUE, rules |-> <<>>]
    ELSE oldParseLoop(file.defs, <<>>)

\* The loop heads of lines 390-391 from rule r at instant x.
RECURSIVE oldSettle(_, _, _, _, _)
oldSettle(rs, r, x, mn, mx) ==
    IF r > Len(rs) \/ x >= mn + rs[r].interval THEN [ri |-> r, t |-> x]
    ELSE oldSettle(rs, r + 1, mx, mn, mx)

\* Lines 328, 332: os.Exit ends the process at once; deferred calls do not run.
osExit(code) == code

\* The values of (time.Now().Unix() - 1) * 1000 drawn.
OldNows == {MaxEnd, MaxEnd + MaxInterval}

\* Lines 325-330.
OldOpenOk ==
    /\ pc = "old.open"
    /\ dbOk
    /\ dbState' = "open"
    /\ pc' = "old.parse"
    /\ UNCHANGED <<inputs, rules, tr, walk, obs, exitCode, cfgErr, flushErr>>

\* Lines 325-329.
OldOpenErr ==
    /\ pc = "old.open"
    /\ ~dbOk
    /\ exitCode' = osExit(1)
    /\ pc' = "exit"
    /\ UNCHANGED <<inputs, rules, tr, walk, obs, cfgErr, flushErr, dbState>>

\* Lines 347-361, 332: the rule file or an expression does not parse.
OldParseErr ==
    /\ pc = "old.parse"
    /\ oldParse(ruleFile).err
    /\ cfgErr' = TRUE
    /\ exitCode' = osExit(1)
    /\ pc' = "exit"
    /\ UNCHANGED <<inputs, rules, tr, walk, obs, flushErr, dbState>>

\* Lines 347-391: the rules, the bounds and the first loop heads.
OldParseOk ==
    /\ pc = "old.parse"
    /\ ~oldParse(ruleFile).err
    /\ rules' = oldParse(ruleFile).rules
    /\ minTime' = storageMin(head, dbBlocks)
    /\ \E now \in OldNows :
          /\ maxTime' = now
          /\ ri' = oldSettle(rules', 1, now, minTime', now).ri
          /\ t' = oldSettle(rules', 1, now, minTime', now).t
    /\ pc' = "old.walk"
    /\ UNCHANGED <<inputs, tr, vec, mss, obs, exitCode, cfgErr, flushErr, dbState>>

\* Lines 392-396, 332: a query error ends the run.
OldQueryErr ==
    /\ pc = "old.walk"
    /\ ri <= Len(rules)
    /\ queries' = logQuery([rule |-> ri, t |-> t])
    /\ queryErr' = TRUE
    /\ exitCode' = osExit(1)
    /\ pc' = "exit"
    /\ UNCHANGED <<inputs, rules, tr, walk, created, produced, consumed, answered, stamped,
                   cfgErr, flushErr, dbState>>

\* The samples of a whole vector (lines 397-405).
relabelAll(rule, v) == [i \in 1 .. Len(v) |-> relabel(rule, v[i])]

\* Lines 392-406: the query returns a vector and its samples are appended.
OldQueryOk ==
    /\ pc = "old.walk"
    /\ ri <= Len(rules)
    /\ \E v \in Vectors :
          /\ queries' = logQuery([rule |-> ri, t |-> t])
          /\ queryErr' = FALSE
          /\ mss' = mss \o relabelAll(rules[ri], v)
          /\ produced' = produced \o relabelAll(rules[ri], v)
          /\ consumed' = consumed \o v
          /\ answered' = IF v = <<>> THEN answered ELSE answered \cup {ri}
          /\ stamped' = (stamped /\ \A i \in 1 .. Len(v) : v[i].T = t)
    /\ ri' = oldSettle(rules, ri, t - rules[ri].interval, minTime, maxTime).ri
    /\ t' = oldSettle(rules, ri, t - rules[ri].interval, minTime, maxTime).t
    /\ UNCHANGED <<inputs, pc, rules, tr, vec, minTime, maxTime, created, exitCode,
                   cfgErr, flushErr, dbState>>

\* Lines 409-417, 332: the one block is created.
OldCreateOk ==
    /\ pc = "old.walk"
    /\ ri > Len(rules)
    /\ created' = Append(created, createBlock(mss, minTime, maxTime, TRUE))
    /\ exitCode' = osExit(0)
    /\ pc' = "exit"
    /\ UNCHANGED <<inputs, rules, tr, walk, queries, queryErr, produced, consumed,
                   answered, stamped, cfgErr, flushErr, dbState>>

\* Lines 409-413, 332: CreateBlock fails.
OldCreateErr ==
    /\ pc = "old.walk"
    /\ ri > Len(rules)
    /\ created' = Append(created, createBlock(mss, minTime, maxTime, FALSE))
    /\ flushErr' = TRUE
    /\ exitCode' = osExit(1)
    /\ pc' = "exit"
    /\ UNCHANGED <<inputs, rules, tr, walk, queries, queryErr, produced, consumed,
                   answered, stamped, cfgErr, dbState>>

InitOld ==
    /\ ruleFile \in RuleFiles \cup {[ok |-> TRUE, defs |-> <<RuleDef("r2", TRUE)>>]}
    /\ dbOk \in BOOLEAN
    /\ head \in {[min |-> MaxInt64, max |-> MinInt64], [min |-> 0, max |-> MaxEnd]}
    /\ dbBlocks \in {{}, {[min |-> 0, max |-> 1]}}
    /\ startFlag = NoFlag
    /\ endFlag = NoFlag
    /\ evalInterval = 1
    /\ maxSamples = 1
    /\ pc = "old.open"
    /\ dbState = "unopened"
    /\ Blank

NextOld ==
    \/ OldOpenOk
    \/ OldOpenErr
    \/ OldParseErr
    \/ OldParseOk
    \/ OldQueryErr
    \/ OldQueryOk
    \/ OldCreateOk
    \/ OldCreateErr

SpecOld == InitOld /\ [][NextOld]_vars

\* One iteration of the sample loop alone (lines 218-243) and the final
\* flush, over every raw label set and rule label set of the drawn names: the
\* state after the first query of a one-rule, one-instant run returned one
\* raw result.
LabelValues == {"up", "h", "value"}
LabelMaps(names) == UNION {[S -> LabelValues] : S \in SUBSET names}

InitRelabel ==
    /\ ruleFile = [ok |-> TRUE, defs |-> <<>>]
    /\ dbOk = TRUE
    /\ head = [min |-> 0, max |-> 0]
    /\ dbBlocks = {}
    /\ startFlag = NoFlag
    /\ endFlag = NoFlag
    /\ evalInterval = 1
    /\ maxSamples \in {0, 1}
    /\ pc = "samples"
    /\ dbState = "open"
    /\ \E name \in {"test", "up"}, m \in LabelMaps({"instance", "key"}) :
          rules = <<[name |-> name, lset |-> FromMap(m)]>>
    /\ tr = [err |-> "none", start |-> Time(0), end |-> Time(0)]
    /\ ri = 1
    /\ t = 0
    /\ \E metric \in LabelMaps({MetricName, "instance", "key"}), v \in {1, 2} :
          vec = <<[Metric |-> metric, V |-> v, T |-> 0]>>
    /\ mss = <<>>
    /\ minTime = MaxInt64
    /\ maxTime = MinInt64
    /\ queries = <<[rule |-> 1, t |-> 0]>>
    /\ queryErr = FALSE
    /\ created = <<>>
    /\ produced = <<>>
    /\ consumed = <<>>
    /\ answered = {1}
    /\ stamped = TRUE
    /\ exitCode = -1
    /\ cfgErr = FALSE
    /\ flushErr = FALSE

NextRelabel ==
    \/ AppendSample
    \/ AppendFlushOk
    \/ AppendFlushErr
    \/ FinalNone
    \/ FinalFlushOk
    \/ FinalFlushErr

SpecRelabel == InitRelabel /\ [][NextRelabel]_vars

\* ------------------------------------------------------------------ claims
\* backfillRules has been entered.
Entered == pc \in {"walk", "samples", "exit"} /\ tr.err = "none"

\* The run of backfillRules ended without a CreateBlock failure.
Completed == pc = "exit" /\ tr.err = "none" /\ ~flushErr /\ ~cfgErr /\ ri > 0

\* The instants queried so far for rule r.
QueriedAt(r) == {queries[i].t : i \in {j \in 1 .. Len(queries) : queries[j].rule = r}}

\* The instants start + k*interval, k >= 1, up to end.
InstantsAfterStart ==
    {x \in start + 1 .. end : (x - start) % evalInterval = 0}

\* C1: the instants a rule is queried at are exactly start + k*interval for
\* k = 1, 2, ... while <= end: start itself is never queried, nothing beyond
\* end is, and a rule whose walk is over was queried at every one of them.
C1_InstantsExcludeStart ==
    Entered =>
        \A r \in 1 .. Len(rules) :
            /\ QueriedAt(r) \subseteq InstantsAfterStart
            /\ (r < ri /\ ~flushErr) => QueriedAt(r) = InstantsAfterStart

\* The storage bounds getTimeRange computes, stated over the storage itself:
\* the least MinTime of the head and the blocks, and the head's MaxTime.
LeastMinTime ==
    CHOOSE m \in {head.min} \cup {b.min : b \in dbBlocks} :
        \A x \in {head.min} \cup {b.min : b \in dbBlocks} : m <= x
HeadMaxTime == head.max

\* getTimeRange has returned.
Resolved == tr.err # "unset"

\* C2: overrides are clamped into [storageMin, storageMax]: no override
\* resolves to the bound itself (and to exactly [storageMin, storageMax] when
\* neither is given and the storage is not empty), a start below storageMin
\* to storageMin, an end above storageMax to storageMax, and an override
\* inside the bounds to itself.
C2_Clamping ==
    Resolved =>
        /\ (startFlag = NoFlag /\ endFlag = NoFlag /\ LeastMinTime <= HeadMaxTime)
              => tr = [err |-> "none", start |-> Time(LeastMinTime),
                       end |-> Time(HeadMaxTime)]
        /\ tr.err = "none" =>
              /\ startFlag = NoFlag => tr.start = Time(LeastMinTime)
              /\ endFlag = NoFlag => tr.end = Time(HeadMaxTime)
              /\ (startFlag.kind = "time" /\ FromTime(startFlag.tk) < LeastMinTime)
                    => tr.start = Time(LeastMinTime)
              /\ (endFlag.kind = "time" /\ FromTime(endFlag.tk) > HeadMaxTime)
                    => tr.end = Time(HeadMaxTime)
              /\ (endFlag.kind = "time" /\ endFlag.tk > Time(HeadMaxTime))
                    => FromTime(tr.end) = HeadMaxTime
              /\ (startFlag.kind = "time" /\ FromTime(startFlag.tk) >= LeastMinTime)
                    => tr.start = startFlag.tk
              /\ (endFlag.kind = "time" /\ FromTime(endFlag.tk) <= HeadMaxTime)
                    => tr.end = endFlag.tk

\* A start below the bounds and an end above them were both clamped.
C2_Witness ==
    /\ tr.err = "none"
    /\ startFlag.kind = "time" /\ FromTime(startFlag.tk) < LeastMinTime
    /\ endFlag.kind = "time" /\ FromTime(endFlag.tk) > HeadMaxTime
    /\ tr.start = Time(LeastMinTime)
    /\ tr.end = Time(HeadMaxTime)
    /\ tr.start < tr.end

\* The start and end an override resolves to, in milliseconds, as the
\* specification states them.
ResolvedStartMs ==
    IF startFlag = NoFlag \/ FromTime(startFlag.tk) < LeastMinTime
    THEN LeastMinTime ELSE FromTime(startFlag.tk)
ResolvedEndMs ==
    IF endFlag = NoFlag \/ FromTime(endFlag.tk) > HeadMaxTime
    THEN HeadMaxTime ELSE FromTime(endFlag.tk)

\* C3: getTimeRange fails whenever the resolved start is after the resolved
\* end, and a range it returns satisfies storageMin <= start <= end <= storageMax.
C3_RangeOrdered ==
    Resolved =>
        /\ (startFlag # BadFlag /\ endFlag # BadFlag /\ ResolvedStartMs > ResolvedEndMs)
              => tr.err = "start after end"
        /\ tr.err = "none" =>
              /\ LeastMinTime <= FromTime(tr.start)
              /\ FromTime(tr.start) <= FromTime(tr.end)
              /\ tr.start <= tr.end
              /\ FromTime(tr.end) <= HeadMaxTime

\* A start override above storageMax, with no end override, was refused.
C3_Witness ==
    /\ tr.err = "start after end"
    /\ startFlag.kind = "time" /\ FromTime(startFlag.tk) > HeadMaxTime
    /\ endFlag = NoFlag
    /\ LeastMinTime <= HeadMaxTime

\* A step in which queryFunc returned an error.
QueryFailed == queries' # queries /\ queryErr'

\* C4: a query error leaves the batch and its bounds unchanged, creates no
\* block, and the walk goes on with the next instant of the rule (or the
\* next rule); a run only ends with every rule walked or on a flush error.
C4_SkipInstant ==
    /\ [][QueryFailed =>
            /\ mss' = mss /\ minTime' = minTime /\ maxTime' = maxTime
            /\ created' = created /\ produced' = produced
            /\ pc' = "walk" /\ exitCode' = -1
            /\ IF t + evalInterval <= end
               THEN ri' = ri /\ t' = t + evalInterval
               ELSE ri' = ri + 1 /\ t' = start]_vars
    /\ [](Entered /\ pc = "exit" /\ ~flushErr => ri > Len(rules))

\* A query has just failed with samples in the batch, and the walk stands
\* at the next instant of the same rule.
C4_Witness ==
    /\ queries # <<>>
    /\ queryErr
    /\ mss # <<>>
    /\ pc = "walk"
    /\ ri = queries[Len(queries)].rule
    /\ t = queries[Len(queries)].t + evalInterval

\* The true minimum / maximum timestamp of a sample sequence, the
\* sentinels for the empty one.
TrueMin(ss) ==
    IF ss = <<>> THEN MaxInt64
    ELSE CHOOSE m \in {ss[i].T : i \in 1 .. Len(ss)} :
             \A i \in 1 .. Len(ss) : m <= ss[i].T
TrueMax(ss) ==
    IF ss = <<>> THEN MinInt64
    ELSE CHOOSE m \in {ss[i].T : i \in 1 .. Len(ss)} :
             \A i \in 1 .. Len(ss) : m >= ss[i].T

\* C5: minTime/maxTime are the true minimum/maximum over the samples held
\* in the batch (the sentinels when it is empty), and every CreateBlock call
\* gets the true bounds of the samples passed in it.
C5_RunningBounds ==
    Entered =>
        /\ minTime = TrueMin(mss)
        /\ maxTime = TrueMax(mss)
        /\ \A i \in 1 .. Len(created) :
              /\ created[i].mint = TrueMin(created[i].samples)
              /\ created[i].maxt = TrueMax(created[i].samples)

\* A block of out-of-order samples was created, and the batch holds
\* out-of-order samples again.
C5_Witness ==
    /\ Len(created) >= 1
    /\ Len(created[1].samples) = 2
    /\ created[1].samples[1].T > created[1].samples[2].T
    /\ created[1].mint = created[1].samples[2].T
    /\ created[1].maxt = created[1].samples[1].T
    /\ Len(mss) = 1
    /\ minTime = mss[1].T

\* C6: with threshold k >= 1 and no CreateBlock failure, a flush happens
\* exactly when the batch reaches k samples: while the walk runs, the N
\* samples produced so far went into N div k calls and N mod k are held; the
\* finished run made N div k calls of exactly k samples, then one call of
\* N mod k samples iff N mod k > 0.
C6_FlushCount ==
    LET k == maxSamples
        N == Len(produced)
    IN  (Entered /\ k >= 1 /\ ~flushErr) =>
            /\ pc # "exit" => Len(created) = N \div k /\ Len(mss) = N % k
            /\ pc = "exit" =>
                  /\ Len(created) = N \div k + (IF N % k > 0 THEN 1 ELSE 0)
                  /\ \A i \in 1 .. N \div k : Len(created[i].samples) = k
                  /\ N % k > 0 => Len(created[Len(created)].samples) = N % k

\* Threshold 2 and three samples: one full flush, then a final one of 1.
C6_Witness ==
    /\ Completed
    /\ maxSamples = 2
    /\ Len(produced) = 3
    /\ Len(created) = 2
    /\ Len(created[1].samples) = 2
    /\ Len(created[2].samples) = 1

\* C7: no CreateBlock call is made with an empty sample sequence.
C7_NoEmptyBlock ==
    \A i \in 1 .. Len(created) : created[i].samples # <<>>

\* A finished run whose last sample exactly filled a batch: the final flush
\* had nothing to write and made no call.
C7_Witness ==
    /\ Completed
    /\ rules # <<>>
    /\ maxSamples >= 1
    /\ produced # <<>>
    /\ Len(produced) = Len(created) * maxSamples
    /\ mss = <<>>

\* C8: after a failing CreateBlock call the run is over: no further query
\* and no further CreateBlock call (so no retry), and the calls already made
\* stay as they were.
C8_FlushErrorAborts ==
    /\ [][/\ flushErr => queries' = queries /\ created' = created /\ pc' = "exit"
          /\ Len(created') >= Len(created)
          /\ \A i \in 1 .. Len(created) : created'[i] = created[i]]_vars
    /\ [](/\ flushErr <=> (created # <<>> /\ ~created[Len(created)].ok)
          /\ flushErr => pc = "exit"
          /\ \A i \in 1 .. Len(created) - 1 : created[i].ok)

\* A block was created, and a later CreateBlock call failed.
C8_Witness ==
    /\ flushErr
    /\ pc = "exit"
    /\ Len(created) >= 2
    /\ created[1].ok
    /\ ~created[Len(created)].ok

\* C9: the exit status is 0 only on full success: a run that ended on a
\* configuration error or on a CreateBlock error exits nonzero.
C9_ExitStatus ==
    (pc = "exit" /\ (cfgErr \/ flushErr)) => exitCode # 0

\* The rule file does not normalize: rulefmt.ParseFile fails, or the
\* expression of a recording rule does not parse.
RuleFileBad ==
    \/ ~ruleFile.ok
    \/ \E i \in 1 .. Len(ruleFile.defs) :
          ruleFile.defs[i].record # "" /\ ~ruleFile.defs[i].exprOk

\* C10: when the rule file does not normalize, or an override is malformed,
\* or the start is after the end, no query is made, no block is created and
\* no rule is kept; the run is over once the error is reported.
C10_ConfigErrorsFirst ==
    /\ (RuleFileBad \/ startFlag = BadFlag \/ endFlag = BadFlag
          \/ tr.err \notin {"none", "unset"})
          => queries = <<>> /\ created = <<>> /\ produced = <<>> /\ ri = 0
    /\ (RuleFileBad /\ pc # "parseRules") => rules = <<>> /\ cfgErr /\ pc = "exit"
    /\ tr.err \notin {"none", "unset"} => cfgErr /\ pc = "exit"
    /\ cfgErr => pc = "exit"

\* The second recording rule of a file does not parse: the run is over and
\* the first rule was not kept.
C10_Witness ==
    /\ pc = "exit"
    /\ cfgErr
    /\ ruleFile.ok
    /\ Len(ruleFile.defs) = 2
    /\ ruleFile.defs[1].exprOk
    /\ rules = <<>>
    /\ queries = <<>>

\* The label names a rule declares, and the value it declares for one.
Declared(rule) == {rule.lset[i].Name : i \in 1 .. Len(rule.lset)}
DeclaredValue(rule, n) ==
    (CHOOSE l \in {rule.lset[i] : i \in 1 .. Len(rule.lset)} : l.Name = n).Value

\* C11: the sample appended for a raw result has the raw labels, with the
\* metric name set to the rule's name and every label the rule declares set
\* to the rule's value; every other raw label is kept, and the value is the
\* raw value.
C11_Relabel ==
    [][produced' # produced =>
          LET s == produced'[Len(produced')]
              raw == Head(vec)
              rule == rules[ri]
          IN  /\ DOMAIN s.Labels = DOMAIN raw.Metric \cup {MetricName} \cup Declared(rule)
              /\ \A n \in DOMAIN s.Labels :
                    s.Labels[n] = IF n \in Declared(rule) THEN DeclaredValue(rule, n)
                                  ELSE IF n = MetricName THEN rule.name
                                  ELSE raw.Metric[n]
              /\ s.Value = raw.V
              /\ s.T = raw.T
              /\ \/ mss' = Append(mss, s)
                 \/ mss' = <<>> /\ created'[Len(created')].samples = Append(mss, s)]_vars

\* Rule "test" with {key: value} relabelled a raw result {__name__: up,
\* instance: h, key: h}: the colliding key took the rule's value.
C11_Witness ==
    /\ Len(produced) = 1
    /\ rules[1].name = "test"
    /\ rules[1].lset = <<[Name |-> "key", Value |-> "value"]>>
    /\ DOMAIN consumed[1].Metric = {MetricName, "instance", "key"}
    /\ consumed[1].Metric[MetricName] = "up"
    /\ consumed[1].Metric["instance"] = "h"
    /\ consumed[1].Metric["key"] = "h"
    /\ DOMAIN produced[1].Labels = {MetricName, "instance", "key"}
    /\ produced[1].Labels[MetricName] = "test"
    /\ produced[1].Labels["instance"] = "h"
    /\ produced[1].Labels["key"] = "value"

\* The samples of every CreateBlock call, and the metric names on them.
SamplesInBlocks ==
    UNION {{created[i].samples[j] : j \in 1 .. Len(created[i].samples)} :
              i \in 1 .. Len(created)}
NamesInBlocks == {s.Labels[MetricName] : s \in SamplesInBlocks}

\* C12: when backfillRules has returned, the metric names on the samples of
\* all CreateBlock calls are exactly the names of the rules for which some
\* query returned a non-empty vector.
C12_OutputNames ==
    (Entered /\ pc = "exit") => NamesInBlocks = {rules[r].name : r \in answered}

\* A finished run of two rules in which only the second got results.
C12_Witness ==
    /\ Completed
    /\ Len(rules) = 2
    /\ answered = {2}
    /\ NamesInBlocks = {rules[2].name}
    /\ rules[1].name \notin NamesInBlocks

\* The greatest MaxTime of the head and the persisted blocks.
GreatestMaxTime ==
    CHOOSE m \in {head.max} \cup {b.max : b \in dbBlocks} :
        \A x \in {head.max} \cup {b.max : b \in dbBlocks} : m >= x

\* C13: the bounds getTimeRange uses are the least MinTime and the greatest
\* MaxTime over the head and every persisted block: with no overrides, a
\* store that holds data resolves to exactly that range.
C13_StorageBounds ==
    (Resolved /\ startFlag = NoFlag /\ endFlag = NoFlag
        /\ LeastMinTime <= GreatestMaxTime)
        => /\ tr.err = "none"
           /\ FromTime(tr.start) = LeastMinTime
           /\ FromTime(tr.end) = GreatestMaxTime

\* The step the rule named name is to be walked with: the interval its
\* group declares, the global --eval-interval when it declares none.
DeclaredStep(name) ==
    LET d == CHOOSE x \in {ruleFile.defs[i] : i \in 1 .. Len(ruleFile.defs)} :
                 x.record = name
    IN  IF d.interval > 0 THEN d.interval ELSE evalInterval

\* C14: consecutive instants of a rule are one step apart, the step being
\* the interval of the rule's group when it declares one and --eval-interval
\* otherwise.
C14_GroupInterval ==
    \A i \in 1 .. Len(queries) - 1 :
        queries[i + 1].rule = queries[i].rule
            => queries[i + 1].t - queries[i].t = DeclaredStep(rules[queries[i].rule].name)

\* C15: queries visit the rules in order and, within a rule, the instants in
\* strictly increasing order, every instant of a rule before any of the
\* next; and every sample of a result is appended before the next query.
C15_WalkOrder ==
    /\ \A i \in 1 .. Len(queries) - 1 :
          \/ queries[i + 1].rule > queries[i].rule
          \/ queries[i + 1].rule = queries[i].rule /\ queries[i + 1].t > queries[i].t
    /\ pc = "walk" => vec = <<>>
    /\ Len(produced) = Len(consumed)
    /\ \A i \in 1 .. Len(produced) : produced[i].T = consumed[i].T

\* C16: backfillRules reaches a terminal state (it returns) for every rule
\* list, range and interval, provided every call returns.
C16_Terminates == <>(pc = "exit")

\* C17: the batch never holds more samples than --max-samples-in-mem,
\* whatever the option is set to.
C17_BatchBounded == Entered => Len(mss) <= maxSamples

\* C18: once the storage handle is open, it is closed before the process
\* exits, on every exit path.
C18_ClosedOnExit == (pc = "exit" /\ dbState # "unopened") => dbState = "closed"

\* The samples of the first n CreateBlock calls, concatenated in call order.
RECURSIVE FlushedUpTo(_)
FlushedUpTo(n) ==
    IF n = 0 THEN <<>> ELSE FlushedUpTo(n - 1) \o created[n].samples

Flushed == FlushedUpTo(Len(created))

\* While the walk runs without a CreateBlock failure, the samples passed to
\* the CreateBlock calls followed by the batch are the samples produced so
\* far; when the run completes the calls alone are the samples produced.
SamplesConserved ==
    /\ (Entered /\ pc # "exit" /\ ~flushErr) => Flushed \o mss = produced
    /\ Completed => Flushed = produced

\* C19: in a completed run of backfillRules without a CreateBlock failure,
\* no sample is lost or duplicated (the concatenation of the samples passed
\* to the CreateBlock calls is the sequence of samples produced), and the
\* batch is empty when the run completes.
C19_NoLossNoDup ==
    Completed => Flushed = produced /\ mss = <<>>

====
